---- MODULE Spec2Model ----
(***************************************************************************)
(* Quatt Modbus sniffer (src/quatt_modbus_sniffer.py): the connection      *)
(* worker's byte buffer, the CRC-driven frame extractor, the frame         *)
(* classifier, the request/response correlator and the statistics.         *)
(*                                                                         *)
(* Bytes are integers 0..255, byte strings are sequences of bytes, Python  *)
(* offsets are 0-based and TLA+ indices 1-based: buffer[p:q] is            *)
(* SubSeq(buffer, p + 1, q).                                               *)
(***************************************************************************)
EXTENDS Integers, Sequences, FiniteSets, TLC

VARIABLES
    running,            \* self.running
    server_socket,      \* "unset" | "listening" | "closed"
    mqtt,               \* TRUE iff self.mqtt is a HomeAssistantMQTT object (paho importable)
    connected,          \* self.mqtt.connected
    pc,                 \* the connection worker: "none" | "recv" | "scan"
    buffer,             \* handle_client's local buffer
    stats,              \* self.stats
    slave_stats,        \* self.slave_stats: device id -> counters
    discovered_slaves,  \* self.discovered_slaves
    pending_requests,   \* self.pending_requests: device id -> request record
    broker,             \* what has been published over MQTT (observation)
    clock,              \* the last value time.time() returned
    obs,                \* the last two process_frame calls, newest first (observation)
    call,               \* the extract_frames call in progress or last finished (observation)
    last,               \* the last iteration of extract_frames' while loop (observation)
    probe,              \* input and result of a stand-alone classifier or decoder query
    workers             \* concurrent connection workers inside process_frame

vars == <<running, server_socket, mqtt, connected, pc, buffer, stats, slave_stats,
          discovered_slaves, pending_requests, broker, clock, obs, call, last, probe, workers>>

-----------------------------------------------------------------------------
(* Program constants, lines 38-46.                                         *)
MAX_BUFFER_SIZE == 512
BUFFER_CLEANUP_SIZE == 256
MIN_FRAME_SIZE == 4
MAX_FRAME_SIZE == 256
MODBUS_CRC_INIT == 65535
MODBUS_CRC_POLY == 40961
STATS_PUBLISH_INTERVAL == 50

Byte == 0..255
None == <<>>

Min(a, b) == IF a < b THEN a ELSE b

(* Sensitivity variant of Drop: the slice starts one byte early.           *)
Drop_keep_last(a, p) == SubSeq(a, IF p = 0 THEN 1 ELSE p, Len(a))

(* a[p:] and a[:q] of Python, 0-based, for 0 <= p, q <= len(a).            *)
Drop(a, p) == SubSeq(a, p + 1, Len(a))
Take(a, q) == SubSeq(a, 1, q)

-----------------------------------------------------------------------------
(* CRC16, lines 594-604.                                                   *)

(* Bitwise exclusive or of two naturals: Python's ^.                       *)
RECURSIVE Xor(_, _)
Xor(a, b) ==
    IF a = 0 THEN b
    ELSE IF b = 0 THEN a
    ELSE ((a + b) % 2) + 2 * Xor(a \div 2, b \div 2)

(* The inner loop, lines 599-603: n rounds of shift-and-conditional-xor.   *)
RECURSIVE crc_bits(_, _)
crc_bits(crc, n) ==
    IF n = 0 THEN crc
    ELSE crc_bits(IF crc % 2 = 1 THEN Xor(crc \div 2, MODBUS_CRC_POLY)
                  ELSE crc \div 2, n - 1)

(* Tabulations of ^ on bytes and of the eight rounds on a byte.  The eight *)
(* rounds are linear over xor and leave the high byte of the register      *)
(* shifted down by eight, so for a 16-bit register c                       *)
(*     crc_bits(c, 8) = (c >> 8) ^ crc_bits(c & 0xFF, 8).                  *)
XOR8 == [a \in Byte |-> [b \in Byte |-> Xor(a, b)]]
CRC_TABLE == [v \in Byte |-> crc_bits(v, 8)]

(* One iteration of "for byte in data", lines 598-603.                     *)
crc_byte(crc, byte) ==
    LET t == CRC_TABLE[XOR8[crc % 256][byte]]
    IN  (t \div 256) * 256 + XOR8[crc \div 256][t % 256]

(* The register after data[lo..hi] starting from crc; the bytes are taken  *)
(* in order, the range is halved only to keep the evaluation shallow.      *)
RECURSIVE crc_range(_, _, _, _)
crc_range(crc, data, lo, hi) ==
    IF crc < 0 \/ lo > hi THEN crc
    ELSE IF lo = hi THEN crc_byte(crc, data[lo])
    ELSE LET mid == (lo + hi) \div 2
         IN  crc_range(crc_range(crc, data, lo, mid), data, mid + 1, hi)

(* Sensitivity variant of pack_le16: high byte first.                      *)
pack_be16(crc) == <<crc \div 256, crc % 256>>

(* struct.pack('<H', crc): low byte first.                                 *)
pack_le16(crc) == <<crc % 256, crc \div 256>>

calculate_crc(data) == pack_le16(crc_range(MODBUS_CRC_INIT, data, 1, Len(data)))

(* Lines 585-592.                                                          *)
verify_crc(frame) ==
    IF Len(frame) < MIN_FRAME_SIZE THEN FALSE
    ELSE SubSeq(frame, Len(frame) - 1, Len(frame))
            = calculate_crc(SubSeq(frame, 1, Len(frame) - 2))

-----------------------------------------------------------------------------
(* The frame search of extract_frames, lines 559-574.                      *)

(* Lines 563-566 for one start_pos: the candidate lengths are              *)
(* range(MIN_FRAME_SIZE, min(len(remaining) + 1, MAX_FRAME_SIZE)), tried   *)
(* in increasing order.  verify_crc(remaining[:frame_len]) compares the    *)
(* candidate's last two bytes with the CRC of the bytes before them; the   *)
(* register over remaining[:frame_len - 2] is carried from one candidate   *)
(* length to the next instead of being recomputed from the first byte.     *)
(* The result of a range of lengths is 65536 + frame_len for the first     *)
(* length that verifies, else the register (below 65536) after the range.  *)
top_frame_len(buf, start_pos) ==
    Min(Len(buf) - start_pos + 1, MAX_FRAME_SIZE) - 1

RECURSIVE scan_lens(_, _, _, _, _)
scan_lens(crc, buf, start_pos, lo, hi) ==
    IF crc >= 65536 \/ lo > hi THEN crc
    ELSE IF lo = hi
         THEN LET c == crc_byte(crc, buf[start_pos + lo - 2])
              IN  IF <<buf[start_pos + lo - 1], buf[start_pos + lo]>> = pack_le16(c)
                  THEN 65536 + lo
                  ELSE c
    ELSE LET mid == (lo + hi) \div 2
         IN  scan_lens(scan_lens(crc, buf, start_pos, lo, mid),
                       buf, start_pos, mid + 1, hi)

(* Sensitivity variant of first_frame_len: the shortest candidate is taken *)
(* without its CRC being verified.                                         *)
first_frame_len_unverified(buf, start_pos) ==
    IF Len(buf) - start_pos >= MIN_FRAME_SIZE THEN MIN_FRAME_SIZE ELSE 0

(* The first frame_len that verifies at start_pos, 0 when none does.       *)
first_frame_len(buf, start_pos) ==
    LET r == scan_lens(crc_range(MODBUS_CRC_INIT, buf, start_pos + 1,
                                 start_pos + MIN_FRAME_SIZE - 3),
                       buf, start_pos, MIN_FRAME_SIZE,
                       top_frame_len(buf, start_pos))
    IN  IF r >= 65536 THEN r - 65536 ELSE 0

NoFrame == [start_pos |-> -1, frame_len |-> 0]

(* Lines 559-574 over start_pos in lo..hi, in increasing order: the first  *)
(* start_pos at which some length verifies, with that length.              *)
RECURSIVE scan_starts(_, _, _)
scan_starts(buf, lo, hi) ==
    IF lo > hi THEN NoFrame
    ELSE IF lo = hi
         THEN LET n == first_frame_len(buf, lo)
              IN  IF n = 0 THEN NoFrame ELSE [start_pos |-> lo, frame_len |-> n]
    ELSE LET mid == (lo + hi) \div 2
             l == scan_starts(buf, lo, mid)
         IN  IF l.frame_len # 0 THEN l ELSE scan_starts(buf, mid + 1, hi)

(* Sensitivity variant of find_frame: only start_pos 0 is tried.           *)
find_frame_first_only(buf) == scan_starts(buf, 0, 0)

(* for start_pos in range(len(buffer) - 3), line 559.                      *)
find_frame(buf) == scan_starts(buf, 0, Len(buf) - MIN_FRAME_SIZE)

(* Sensitivity variants of cleanup: one byte too few is dropped; nothing   *)
(* is dropped.                                                             *)
cleanup_short(buf) == Drop(buf, BUFFER_CLEANUP_SIZE - 1)
cleanup_none(buf) == buf

(* Sensitivity variant of cleanup: twice as many bytes are dropped.        *)
cleanup_double(buf) == Drop(buf, 2 * BUFFER_CLEANUP_SIZE)

(* buffer = buffer[BUFFER_CLEANUP_SIZE:], line 579.                        *)
cleanup(buf) == Drop(buf, BUFFER_CLEANUP_SIZE)

(* extract_frames as a whole, lines 553-583: the frames it hands to        *)
(* process_frame, in order, and the buffer it returns.                     *)
RECURSIVE extract_frames(_)
extract_frames(buf) ==
    IF Len(buf) < MIN_FRAME_SIZE THEN [frames |-> <<>>, buffer |-> buf]
    ELSE LET m == find_frame(buf)
         IN  IF m.frame_len # 0
             THEN LET rest == extract_frames(Drop(buf, m.start_pos + m.frame_len))
                  IN  [frames |-> <<SubSeq(buf, m.start_pos + 1, m.start_pos + m.frame_len)>>
                                      \o rest.frames,
                       buffer |-> rest.buffer]
             ELSE IF Len(buf) > MAX_BUFFER_SIZE
                  THEN extract_frames(cleanup(buf))
                  ELSE [frames |-> <<>>, buffer |-> buf]

-----------------------------------------------------------------------------
(* Dictionaries: functions on the set of their keys.                       *)
EmptyDict == [k \in {} |-> 0]

(* Sensitivity variants: an assignment that keeps an existing entry, a     *)
(* deletion that deletes nothing, a little-endian unpack.                  *)
PutIfAbsent(d, k, v) == [x \in (DOMAIN d) \cup {k} |-> IF x \in DOMAIN d THEN d[x] ELSE v]
DelNothing(d, k) == d
unpack_le16(hi, lo) == lo * 256 + hi

(* Sensitivity variant of Put: the assignment drops every other entry.     *)
PutOnly(d, k, v) == [x \in {k} |-> v]

(* Sensitivity variant of Del: every entry is deleted.                     *)
DelAll(d, k) == [x \in {} |-> 0]

Put(d, k, v) == [x \in (DOMAIN d) \cup {k} |-> IF x = k THEN v ELSE d[x]]
Del(d, k) == [x \in (DOMAIN d) \ {k} |-> d[x]]

(* struct.unpack('>H', b)[0] of the two bytes hi, lo.                      *)
unpack_be16(hi, lo) == hi * 256 + lo

(* x & mask for a one-bit mask.                                            *)
BitSet(x, mask) == (x \div mask) % 2 = 1

-----------------------------------------------------------------------------
(* Sensitivity variant of is_modbus_request: a write-multiple frame of     *)
(* nine bytes counts as a request.                                         *)
is_modbus_request_from9(function_code, frame_data) ==
    IF BitSet(function_code, 128) THEN FALSE
    ELSE IF function_code \in {1, 2, 3, 4} THEN Len(frame_data) <= 8
    ELSE IF function_code = 6 THEN Len(frame_data) = 8
    ELSE IF function_code = 16 THEN Len(frame_data) >= 9
    ELSE TRUE

(* Frame classifier, lines 748-764.                                        *)
is_modbus_request(function_code, frame_data) ==
    IF BitSet(function_code, 128) THEN FALSE
    ELSE IF function_code \in {1, 2, 3, 4} THEN Len(frame_data) <= 8
    ELSE IF function_code = 6 THEN Len(frame_data) = 8
    ELSE IF function_code = 16 THEN Len(frame_data) > 9
    ELSE TRUE

-----------------------------------------------------------------------------
(* Register decoder, QuattDataParser, lines 254-377.  Scales are kept in   *)
(* thousandths (0.01 is 10, 0.618 is 618) and a scaled value is the        *)
(* integer number of thousandths of its unit; the unit strings are left    *)
(* out of the readings.                                                    *)
TEMPERATURE_MIN == -30
TEMPERATURE_MAX == 150

Plain(name) == [name |-> name, scale |-> 1000, offset |-> 0, device_class |-> "None"]
Scaled(name, scale, class) == [name |-> name, scale |-> scale, offset |-> 0, device_class |-> class]
Temp(name) == [name |-> name, scale |-> 10, offset |-> -3000, device_class |-> "temperature"]

register_mappings ==
    (1999 :> Plain("Compressor Level set by CiC")) @@
    (2010 :> Plain("Pump Mode set by CiC")) @@
    (2015 :> Scaled("Pump Level set by CiC", 10, "None")) @@
    (3999 :> Plain("Working Mode set by CiC")) @@
    (2099 :> Plain("Working Mode Actual")) @@
    (2100 :> Scaled("Compressor AC Voltage", 1000, "voltage")) @@
    (2101 :> Scaled("Compressor AC Current", 100, "current")) @@
    (2102 :> Scaled("Compressor Frequency Demand", 1000, "frequency")) @@
    (2103 :> Scaled("Compressor Frequency Actual", 1000, "frequency")) @@
    (2104 :> Scaled("Fan Speed Maximum", 1000, "speed")) @@
    (2105 :> Scaled("Fan Speed Actual", 1000, "speed")) @@
    (2107 :> Plain("Electric Expansion Valve")) @@
    (2108 :> Plain("Status Bits R2108")) @@
    (2109 :> Plain("EV1 Steps")) @@
    (2110 :> Temp("Outside Temperature")) @@
    (2111 :> Temp("Evaporator Coil Temperature")) @@
    (2112 :> Temp("Gas Discharge Temperature")) @@
    (2113 :> Temp("Gas Return Temperature")) @@
    (2116 :> Scaled("Evaporator Pressure", 100, "pressure")) @@
    (2117 :> Scaled("Condenser Pressure", 100, "pressure")) @@
    (2118 :> Plain("Defrost Mode")) @@
    (2119 :> Plain("Status Bits R2119")) @@
    (2120 :> Plain("Status Bits R2120")) @@
    (2121 :> Plain("Status Bits R2121")) @@
    (2122 :> Plain("Firmware Version")) @@
    (2123 :> Plain("EEPROM Version")) @@
    (2131 :> Temp("Condensing Temperature")) @@
    (2132 :> Temp("Evaporating Temperature")) @@
    (2133 :> Temp("Water In Temperature")) @@
    (2134 :> Temp("Water Out Temperature")) @@
    (2135 :> Temp("Condenser Coil Temperature")) @@
    (2137 :> Scaled("Pump Power", 100, "power")) @@
    (2138 :> Scaled("Pump Flow", 618, "volume_flow_rate"))

(* The bit tables, in the dictionaries' insertion order.                   *)
BitInfo(bit, name, bitmask) == [bit |-> bit, name |-> name, bitmask |-> bitmask]

r2108_bits ==
    << BitInfo(0, "Fan Low Speed Mode", 1),
       BitInfo(2, "Bottom Heater", 4),
       BitInfo(3, "Crankcase Heater", 8),
       BitInfo(4, "Fan Defrost Speed Mode", 16),
       BitInfo(5, "Fan High Speed Mode", 32),
       BitInfo(6, "4way Valve", 64),
       BitInfo(11, "Pump Relay", 2048) >>

r2119_bits ==
    << BitInfo(0, "Alarm - Main Line Current", 1),
       BitInfo(3, "Info - Compressor Oil Return", 8),
       BitInfo(4, "Alarm - High Pressure Switch", 16),
       BitInfo(6, "Alarm - 1st Start Pre-heat", 64),
       BitInfo(9, "Alarm - AC High/Low Voltage", 512),
       BitInfo(12, "Alarm - Low Pressure Switch", 4096) >>

(* Sensitivity variant of parse_status_bits: a bit counts as set when the   *)
(* value is at least its mask.                                             *)
parse_status_bits_ge(value, register_addr, bit_mappings, prefix) ==
    [k \in 1..Len(bit_mappings) |->
        [name |-> prefix \o " " \o bit_mappings[k].name,
         value |-> value >= bit_mappings[k].bitmask,
         device_class |-> "binary_sensor",
         register |-> ToString(register_addr) \o "b" \o ToString(bit_mappings[k].bit),
         raw_value |-> value]]

(* Lines 366-377: one boolean reading per entry of the bit table.          *)
parse_status_bits(value, register_addr, bit_mappings, prefix) ==
    [k \in 1..Len(bit_mappings) |->
        [name |-> prefix \o " " \o bit_mappings[k].name,
         value |-> BitSet(value, bit_mappings[k].bitmask),
         device_class |-> "binary_sensor",
         register |-> ToString(register_addr) \o "b" \o ToString(bit_mappings[k].bit),
         raw_value |-> value]]

(* Sensitivity variant of parse_register: the value is scaled first and    *)
(* the offset added afterwards.                                            *)
parse_register_scale_first(register_addr, raw) ==
    IF register_addr \notin DOMAIN register_mappings THEN <<>>
    ELSE LET mapping == register_mappings[register_addr]
             value == IF mapping.device_class = "temperature" /\ raw > 32767
                      THEN raw - 65536 ELSE raw
             scaled_value == value * mapping.scale + mapping.offset * 1000
             clamped == IF mapping.device_class = "temperature"
                        THEN IF scaled_value > TEMPERATURE_MAX * 1000
                             THEN TEMPERATURE_MAX * 1000
                             ELSE IF scaled_value < TEMPERATURE_MIN * 1000
                                  THEN TEMPERATURE_MIN * 1000
                                  ELSE scaled_value
                        ELSE scaled_value
         IN  << [name |-> mapping.name, value |-> clamped,
                 device_class |-> mapping.device_class,
                 register |-> ToString(register_addr), raw_value |-> value] >>

(* Lines 321-362 for one (register_addr, value): the readings it adds.     *)
parse_register(register_addr, raw) ==
    IF register_addr \notin DOMAIN register_mappings THEN <<>>
    ELSE LET mapping == register_mappings[register_addr]
             value == IF mapping.device_class = "temperature" /\ raw > 32767
                      THEN raw - 65536 ELSE raw
             offset_value == value + mapping.offset
             scaled_value == offset_value * mapping.scale
             clamped == IF mapping.device_class = "temperature"
                        THEN IF scaled_value > TEMPERATURE_MAX * 1000
                             THEN TEMPERATURE_MAX * 1000
                             ELSE IF scaled_value < TEMPERATURE_MIN * 1000
                                  THEN TEMPERATURE_MIN * 1000
                                  ELSE scaled_value
                        ELSE scaled_value
             reading == [name |-> mapping.name, value |-> clamped,
                         device_class |-> mapping.device_class,
                         register |-> ToString(register_addr), raw_value |-> value]
         IN  <<reading>> \o
             (IF register_addr = 2108
              THEN parse_status_bits(value, register_addr, r2108_bits, "R2108")
              ELSE IF register_addr = 2118
              THEN << [name |-> "Defrost Mode Active", value |-> BitSet(value, 1),
                       device_class |-> "binary_sensor", register |-> "2118b0",
                       raw_value |-> value] >>
              ELSE IF register_addr = 2119
              THEN parse_status_bits(value, register_addr, r2119_bits, "R2119")
              ELSE <<>>)

(* Lines 316-364: the readings of values[lo..hi], in order.  Distinct      *)
(* registers give distinct names, so no entry of parsed_data is replaced.  *)
RECURSIVE parse_values(_, _, _, _)
parse_values(start_register, values, lo, hi) ==
    IF lo > hi THEN <<>>
    ELSE IF lo = hi THEN parse_register(start_register + lo - 1, values[lo])
    ELSE LET mid == (lo + hi) \div 2
         IN  parse_values(start_register, values, lo, mid)
                \o parse_values(start_register, values, mid + 1, hi)

parse_read_response(start_register, values) ==
    parse_values(start_register, values, 1, Len(values))

-----------------------------------------------------------------------------
(* Optional values: None is <<>>, a present value x is <<x>>.              *)
Some(x) == <<x>>

(* Statistics, lines 405-415 and 734-746.                                  *)
ZeroStats ==
    [total_frames |-> 0, valid_frames |-> 0, requests |-> 0, responses |-> 0,
     errors |-> 0, mqtt_publishes |-> 0]

(* n calls of update_slave_stats(slave_id, stat_type); no call leaves the  *)
(* dictionary as it is.                                                    *)
add_slave_stats(ss, slave_id, stat_type, n) ==
    IF n = 0 THEN ss
    ELSE LET cur == IF slave_id \in DOMAIN ss THEN ss[slave_id] ELSE ZeroStats
         IN  Put(ss, slave_id, [cur EXCEPT ![stat_type] = @ + n])

update_slave_stats(ss, slave_id, stat_type) ==
    add_slave_stats(ss, slave_id, stat_type, 1)

(* The sniffer's shared state as one record; broker is what the MQTT       *)
(* client has been handed for publication.                                 *)
Shared ==
    [stats |-> stats, slave_stats |-> slave_stats,
     discovered_slaves |-> discovered_slaves,
     pending_requests |-> pending_requests, broker |-> broker]

(* Lines 424-461: publish_*_discovery return at once when not connected.   *)
setup_ha_sensors_for_slave(P, slave_id) ==
    IF ~mqtt \/ slave_id \in P.discovered_slaves THEN P
    ELSE [P EXCEPT !.discovered_slaves = @ \cup {slave_id},
                   !.broker.discovery = IF connected THEN @ \cup {slave_id} ELSE @]

(* Lines 673-680: the 16-bit values of a read response, taken in pairs     *)
(* for i = 0, 2, ... below byte_count while 3 + i + 1 < len(frame) - 2.    *)
response_values(response_frame) ==
    LET byte_count == response_frame[3]
        n == Cardinality({i \in 0..(byte_count - 1) :
                            i % 2 = 0 /\ 3 + i + 1 < Len(response_frame) - 2})
    IN  [k \in 1..n |-> unpack_be16(response_frame[2 * k + 2], response_frame[2 * k + 3])]

(* Lines 663-704.  request_frame is None or Some(frame).  The result is    *)
(* the shared state, what was handed to the decoder, and whether the       *)
(* except branch of line 703 was taken.  publish_raises says that the MQTT *)
(* client's publish raises in this call: the publish_* methods reach it    *)
(* only while connected, so the first publication of a connected publisher *)
(* ends the try block: the discovery of a slave not yet in                 *)
(* discovered_slaves (added on line 432 before anything is published),     *)
(* else the first reading after parse_read_response.                       *)
handle_sensor_data(P, response_frame, request_frame, device_id, response_time, publish_raises) ==
    IF ~mqtt \/ request_frame = None \/ response_frame[2] \notin {3, 4}
    THEN [P |-> P, decoded |-> None, raised |-> FALSE]
    ELSE LET start_register == unpack_be16(request_frame[1][3], request_frame[1][4])
             values == response_values(response_frame)
             P1 == setup_ha_sensors_for_slave(P, device_id)
             parsed_data == parse_read_response(start_register, values)
             n == Len(parsed_data)
             decoded == Some([start_register |-> start_register, values |-> values])
         IN  IF publish_raises /\ connected
             THEN IF device_id \notin P.discovered_slaves
                  THEN [P |-> [P EXCEPT !.discovered_slaves = @ \cup {device_id},
                                        !.broker.raised = @ + 1],
                        decoded |-> None, raised |-> TRUE]
                  ELSE [P |-> [P EXCEPT !.broker.raised = @ + 1],
                        decoded |-> decoded, raised |-> TRUE]
             ELSE [P |-> [P1 EXCEPT
                            !.stats.mqtt_publishes = @ + n,
                            !.slave_stats = add_slave_stats(@, device_id, "mqtt_publishes", n),
                            !.broker.state = IF connected THEN @ \cup {device_id} ELSE @],
                   decoded |-> decoded, raised |-> FALSE]

(* Sensitivity variant of publish_stats: the test of self.mqtt on line 708 *)
(* is left out.                                                            *)
publish_stats_always(P, publish_raises) ==
    [P |-> [P EXCEPT !.broker.snapshots = @ + 1,
                     !.broker.snapshot =
                         Some([at |-> P.stats, published |-> {},
                               logged |-> DOMAIN P.slave_stats])],
     raised |-> FALSE]

(* Lines 706-730: the per-slave publications go to discovered slaves and   *)
(* only while connected; the log lines that follow them name every slave   *)
(* of slave_stats.  A publish that raises leaves publish_stats before      *)
(* anything is logged.  broker.snapshots counts the calls that ran to the  *)
(* end, broker.snapshot is what the last of them emitted, and              *)
(* broker.raised counts the publications that raised.                      *)
publish_stats(P, publish_raises) ==
    IF ~mqtt THEN [P |-> P, raised |-> FALSE]
    ELSE LET slaves == (DOMAIN P.slave_stats) \cap P.discovered_slaves
             published == IF connected THEN slaves ELSE {}
         IN  IF publish_raises /\ published # {}
             THEN [P |-> [P EXCEPT !.broker.raised = @ + 1], raised |-> TRUE]
             ELSE [P |-> [P EXCEPT
                            !.broker.snapshots = @ + 1,
                            !.broker.snapshot =
                                Some([at |-> P.stats, published |-> published,
                                      logged |-> DOMAIN P.slave_stats]),
                            !.broker.state = @ \cup published],
                   raised |-> FALSE]

(* Lines 606-661.  Every frame extract_frames passes has at least          *)
(* MIN_FRAME_SIZE bytes and no statement of the body raises on such a      *)
(* frame, so the except branch of line 659 is taken only when the MQTT     *)
(* client's publish raises inside publish_stats (publish_raises).  The     *)
(* result is the shared state after the call and a record of what the call *)
(* did; pending_before, pending_table and stats_before are the device's    *)
(* entry, the whole table and the counters as the call found them.         *)
process_frame(P, frame_data, current_time, publish_raises) ==
    LET P0 == [P EXCEPT !.stats.total_frames = @ + 1]
        device_id == frame_data[1]
        function_code == frame_data[2]
        is_request == is_modbus_request(function_code, frame_data)
        pending == IF device_id \in DOMAIN P.pending_requests
                   THEN Some(P.pending_requests[device_id]) ELSE None
        Finish(Q) ==
            LET Q1 == [Q EXCEPT !.stats.valid_frames = @ + 1,
                                !.slave_stats = update_slave_stats(@, device_id, "valid_frames")]
                s == publish_stats(Q1, publish_raises)
            IN  IF Q1.stats.total_frames % STATS_PUBLISH_INTERVAL = 0
                THEN IF s.raised
                     THEN [P |-> [s.P EXCEPT !.stats.errors = @ + 1], raised |-> TRUE]
                     ELSE [P |-> s.P, raised |-> FALSE]
                ELSE [P |-> Q1, raised |-> FALSE]
        Obs(req, ms, dec, sensor_raised, raised) ==
            [frame |-> frame_data, time |-> current_time, device_id |-> device_id,
             is_request |-> is_request, pending_before |-> pending,
             pending_table |-> P.pending_requests, stats_before |-> P.stats,
             request_frame |-> req, response_time_ms |-> ms, decoded |-> dec,
             sensor_raised |-> sensor_raised, raised |-> raised]
        Result(f, req, ms, dec, sensor_raised) ==
            [P |-> f.P, obs |-> Obs(req, ms, dec, sensor_raised, f.raised)]
    IN  IF Len(frame_data) < MIN_FRAME_SIZE
        THEN [P |-> P0, obs |-> Obs(None, 0, None, FALSE, FALSE)]
        ELSE IF is_request
        THEN Result(Finish([P0 EXCEPT
                    !.stats.requests = @ + 1,
                    !.slave_stats = update_slave_stats(@, device_id, "requests"),
                    !.pending_requests =
                        Put(@, device_id, [frame |-> frame_data, time |-> current_time,
                                           function_code |-> function_code])]),
                    None, 0, None, FALSE)
        ELSE LET P1 == [P0 EXCEPT
                          !.stats.responses = @ + 1,
                          !.slave_stats = update_slave_stats(@, device_id, "responses")]
                 found == device_id \in DOMAIN P1.pending_requests
                 response_time_ms ==
                     IF found
                     THEN (current_time - P1.pending_requests[device_id].time) * 1000
                     ELSE 0
                 request_frame ==
                     IF found THEN Some(P1.pending_requests[device_id].frame) ELSE None
                 P2 == IF found
                       THEN [P1 EXCEPT !.pending_requests = Del(@, device_id)]
                       ELSE P1
                 h == handle_sensor_data(P2, frame_data, request_frame, device_id,
                                         response_time_ms, publish_raises)
             IN  Result(Finish(h.P), request_frame, response_time_ms, h.decoded,
                        h.raised)

-----------------------------------------------------------------------------
(* Bounds of the model.                                                    *)
MaxFrames == 3       \* frames processed before the last chunk of a behaviour
MaxClock == 1        \* largest clock value
MaxBacklog == 3      \* bytes a worker may hold when a further chunk arrives
MaxProbeLen == 12    \* longest frame of a classifier query
MaxCycleFrames == 100    \* frames of a behaviour of SpecCycle
MaxRaises == 1       \* publications that raise in a behaviour
RawWindow == 2       \* distance of a decoder query's value from a pivot value
MaxRaceFrames == 2   \* frames one of several concurrent workers processes
MaxNoise == 6        \* most noise bytes before a short frame in flight of SpecDiscard
MaxCrcLen == 3       \* longest data of a CRC query drawn from CrcBytes
MaxByteCount == 8    \* largest byte count a read response of SpecValues declares
MaxPayload == 6      \* most bytes a read response of SpecValues carries before its CRC

(* The traffic: CRC-valid frames of two devices, and line noise.           *)
Frame(data) == data \o calculate_crc(data)

ReqA == Frame(<<1, 3, 8, 62, 0, 2>>)        \* device 1: read 2 holding registers at 2110
ReqA2 == Frame(<<1, 3, 8, 60, 0, 2>>)       \* device 1: read 2 holding registers at 2108
RespA == Frame(<<1, 3, 4, 12, 28, 255, 255>>)   \* device 1: read response, 2 values
Resp1 == Frame(<<1, 3, 2, 12, 28>>)         \* device 1: read response, 1 value
ErrA == Frame(<<1, 131, 2>>)                \* device 1: error response
ReqB == Frame(<<2, 4, 8, 62, 0, 1>>)        \* device 2: read 1 input register at 2110
Noise == <<255, 0>>

(* A frame of n bytes that no shorter candidate at any offset verifies     *)
(* inside: device 1, function 0x10, zero payload.                          *)
LongFrame(n) == Frame([i \in 1..(n - 2) |-> IF i = 1 THEN 1 ELSE IF i = 2 THEN 16 ELSE 0])
Frame256 == LongFrame(MAX_FRAME_SIZE)
Frame255 == LongFrame(MAX_FRAME_SIZE - 1)
Garbage(n) == [i \in 1..n |-> 85]

(* What one recv(1024) returns in Spec: one whole frame.                   *)
Chunks == {ReqA, ReqA2, RespA, Resp1, ErrA, ReqB}

(* What one recv(1024) returns in SpecStream: a frame, two frames back to  *)
(* back, noise, noise around frames, a frame cut in two ...                *)
StreamChunks ==
    {ReqA, RespA, Noise, ReqA \o RespA, Noise \o ReqA \o Noise \o RespA,
     Take(ReqA, 3), Drop(ReqA, 3)}

(* ... or, as the first data of the connection, a long transfer: frames of *)
(* the largest sizes, alone or followed by a short frame, and noise longer *)
(* than MAX_BUFFER_SIZE.                                                   *)
BulkChunks ==
    {Frame255, Frame256, Frame256 \o ReqA, Garbage(MAX_BUFFER_SIZE + 8)}

-----------------------------------------------------------------------------
(* The state after QuattModbusSniffer.__init__, lines 384-420.             *)
NoCall == [input |-> <<>>, frames |-> <<>>]
NoIteration == [kind |-> "none", buf |-> <<>>, start_pos |-> -1, frame_len |-> 0,
                processed |-> 0]
NoProbe == [function_code |-> -1, length |-> 0, result |-> "none"]

(* The connection threads of lines 514-519 when several peers connect; a   *)
(* worker is "none" (no thread), in "recv", at "store": inside             *)
(* process_frame, having read self.stats['total_frames'] on line 609 and   *)
(* not yet written it back, or at "del": past the reads of lines 638-641   *)
(* and before the del of line 642.  seen is the pending entry the worker   *)
(* read on lines 638-641, obtained counts the responses for which it read  *)
(* one, and raised tells that its del raised KeyError.                     *)
Workers == {1, 2}
NoWorker ==
    [pc |-> "none", frame_data |-> <<>>, total_frames |-> 0, processed |-> 0,
     seen |-> None, obtained |-> 0, raised |-> FALSE]

InitSniffer ==
    /\ running = FALSE
    /\ server_socket = "unset"
    /\ mqtt \in BOOLEAN
    /\ connected = FALSE
    /\ pc = "none"
    /\ buffer = <<>>
    /\ stats = ZeroStats
    /\ slave_stats = EmptyDict
    /\ discovered_slaves = {}
    /\ pending_requests = EmptyDict
    /\ broker = [discovery |-> {}, state |-> {}, snapshots |-> 0, snapshot |-> None,
                 raised |-> 0]
    /\ clock = 0
    /\ obs = None
    /\ call = NoCall
    /\ last = NoIteration
    /\ workers = [w \in Workers |-> NoWorker]

Init ==
    /\ InitSniffer
    /\ probe = NoProbe

(* start_server up to the accept loop, lines 489-496.                      *)
StartServer ==
    /\ server_socket = "unset"
    /\ server_socket' = "listening"
    /\ running' = TRUE
    /\ UNCHANGED <<mqtt, connected, pc, buffer, stats, slave_stats, discovered_slaves,
                   pending_requests, broker, clock, obs, call, last, probe, workers>>

(* Lines 509-519: a connection is accepted and its worker starts with an   *)
(* empty buffer (line 536) and passes the first "while self.running".      *)
Accept ==
    /\ running
    /\ server_socket = "listening"
    /\ pc = "none"
    /\ pc' = "recv"
    /\ buffer' = <<>>
    /\ call' = NoCall
    /\ last' = NoIteration
    /\ UNCHANGED <<running, server_socket, mqtt, connected, stats, slave_stats,
                   discovered_slaves, pending_requests, broker, clock, obs, probe, workers>>

(* Lines 540-545: recv returns data, which is appended, and extract_frames *)
(* is entered.                                                             *)
Receive(data) ==
    /\ pc = "recv"
    /\ buffer' = buffer \o data
    /\ pc' = "scan"
    /\ call' = [input |-> buffer', frames |-> <<>>]
    /\ last' = NoIteration
    /\ UNCHANGED <<running, server_socket, mqtt, connected, stats, slave_stats,
                   discovered_slaves, pending_requests, broker, clock, obs, probe, workers>>

Recv ==
    \E data \in Chunks :
        /\ Len(buffer) <= MaxBacklog
        /\ stats.total_frames < MaxFrames
        /\ Receive(data)

RecvStream ==
    \E data \in StreamChunks :
        /\ Len(buffer) <= MaxBacklog
        /\ stats.total_frames < MaxFrames
        /\ Receive(data)

RecvBulk ==
    \E data \in BulkChunks :
        /\ buffer = <<>>
        /\ obs = None
        /\ Receive(data)

(* A bus on which device 1 is also written to and read with function code *)
(* 0x04: a write of one holding register and a read of input registers,    *)
(* besides the read of holding registers and its response.                 *)
WriteA == Frame(<<1, 6, 8, 62, 0, 5>>)      \* device 1: write 5 to register 2110
ReqA4 == Frame(<<1, 4, 8, 62, 0, 2>>)       \* device 1: read 2 input registers at 2110
MixedChunks == {ReqA, RespA, WriteA, ReqA4}

RecvMixed ==
    \E data \in MixedChunks :
        /\ buffer = <<>>
        /\ stats.total_frames < MaxFrames
        /\ Receive(data)

(* The frames concurrent workers process.                                  *)
RaceFrames == {ReqA, RespA, ReqB}

(* A bus polled in a fixed cycle, for runs long enough to reach            *)
(* STATS_PUBLISH_INTERVAL: device 1 is read and answers, device 2 is read  *)
(* and stays silent.                                                       *)
PollCycle == <<ReqA, RespA, ReqB>>

RecvCycle ==
    /\ stats.total_frames < MaxCycleFrames
    /\ Receive(PollCycle[(stats.total_frames % Len(PollCycle)) + 1])

(* Lines 541-542 and 549-551: recv returns no data, the worker ends.       *)
RecvClosed ==
    /\ pc = "recv"
    /\ pc' = "none"
    /\ UNCHANGED <<running, server_socket, mqtt, connected, buffer, stats, slave_stats,
                   discovered_slaves, pending_requests, broker, clock, obs, call,
                   last, probe, workers>>

(* Sensitivity variant of AfterExtract: the loop of line 539 tests nothing. *)
AfterExtract_always == "recv"

(* The most bytes one recv returns, line 540.                              *)
RecvSize == 1024

(* The worker after extract_frames returns: line 545 and the loop test of  *)
(* line 539.                                                               *)
AfterExtract == IF running THEN "recv" ELSE "none"

(* Whether the MQTT client's publish raises during a process_frame call:  *)
(* nothing is published, so nothing raises, without a connected publisher. *)
PublishOutcomes ==
    IF mqtt /\ connected /\ broker.raised < MaxRaises THEN BOOLEAN ELSE {FALSE}

(* obs holds what the last two process_frame calls did, the newest first. *)
Newest(o) == IF o = <<>> THEN <<>> ELSE <<o[1]>>

Iteration(kind, m) ==
    [kind |-> kind, buf |-> buffer, start_pos |-> m.start_pos, frame_len |-> m.frame_len,
     processed |-> stats.total_frames]

(* One evaluation of the while loop of extract_frames, lines 555-583.      *)
ExtractStep ==
    /\ pc = "scan"
    /\ IF Len(buffer) < MIN_FRAME_SIZE
       THEN /\ pc' = AfterExtract
            /\ last' = Iteration("short", NoFrame)
            /\ UNCHANGED <<buffer, stats, slave_stats, discovered_slaves,
                           pending_requests, broker, clock, obs, call>>
       ELSE LET m == find_frame(buffer)
            IN  IF m.frame_len # 0
                THEN /\ \E dt \in 0..1, publish_raises \in PublishOutcomes :
                          /\ clock + dt <= MaxClock
                          /\ clock' = clock + dt
                          /\ LET potential_frame ==
                                     SubSeq(buffer, m.start_pos + 1,
                                            m.start_pos + m.frame_len)
                                 r == process_frame(Shared, potential_frame, clock',
                                                    publish_raises)
                             IN  /\ stats' = r.P.stats
                                 /\ slave_stats' = r.P.slave_stats
                                 /\ discovered_slaves' = r.P.discovered_slaves
                                 /\ pending_requests' = r.P.pending_requests
                                 /\ broker' = r.P.broker
                                 /\ obs' = <<r.obs>> \o Newest(obs)
                                 /\ call' = [call EXCEPT !.frames = Append(@, potential_frame)]
                     /\ buffer' = Drop(buffer, m.start_pos + m.frame_len)
                     /\ pc' = "scan"
                     /\ last' = Iteration("frame", m)
                ELSE /\ IF Len(buffer) > MAX_BUFFER_SIZE
                        THEN /\ buffer' = cleanup(buffer)
                             /\ pc' = "scan"
                             /\ last' = Iteration("cleanup", m)
                        ELSE /\ buffer' = buffer
                             /\ pc' = AfterExtract
                             /\ last' = Iteration("wait", m)
                     /\ UNCHANGED <<stats, slave_stats, discovered_slaves,
                                    pending_requests, broker, clock, obs, call>>
    /\ UNCHANGED <<running, server_socket, mqtt, connected, probe, workers>>

(* stop_server, lines 807-829, from the signal handler or the finally of   *)
(* start_server.                                                           *)
StopServer ==
    /\ running
    /\ running' = FALSE
    /\ server_socket' = "closed"
    /\ UNCHANGED <<mqtt, connected, pc, buffer, stats, slave_stats, discovered_slaves,
                   pending_requests, broker, clock, obs, call, last, probe, workers>>

(* on_connect with a successful reason code, lines 110-116, and            *)
(* on_disconnect, lines 118-121, called from the MQTT client's thread.     *)
MqttConnect ==
    /\ mqtt
    /\ ~connected
    /\ connected' = TRUE
    /\ UNCHANGED <<running, server_socket, mqtt, pc, buffer, stats, slave_stats,
                   discovered_slaves, pending_requests, broker, clock, obs, call,
                   last, probe, workers>>

MqttDisconnect ==
    /\ connected
    /\ connected' = FALSE
    /\ UNCHANGED <<running, server_socket, mqtt, pc, buffer, stats, slave_stats,
                   discovered_slaves, pending_requests, broker, clock, obs, call,
                   last, probe, workers>>

Next ==
    \/ StartServer
    \/ Accept
    \/ Recv
    \/ RecvClosed
    \/ ExtractStep
    \/ StopServer
    \/ MqttConnect
    \/ MqttDisconnect

Spec == Init /\ [][Next]_vars

(* One connection fed with noisy, cut and long transfers.                  *)
NextStream ==
    \/ StartServer
    \/ Accept
    \/ RecvStream
    \/ RecvBulk
    \/ ExtractStep

SpecStream == Init /\ [][NextStream]_vars

(* One connection carrying the polling cycle.                              *)
NextMixed ==
    \/ StartServer
    \/ Accept
    \/ MqttConnect
    \/ RecvMixed
    \/ ExtractStep

SpecMixed == Init /\ [][NextMixed]_vars

NextCycle ==
    \/ StartServer
    \/ Accept
    \/ RecvCycle
    \/ ExtractStep
    \/ MqttConnect

SpecCycle == Init /\ [][NextCycle]_vars

(* The server with one connection and no MQTT session, the worker thread   *)
(* being scheduled whenever it has a step of extract_frames to take; no    *)
(* assumption is made on the peer, whose data recv waits for. The fairness *)
(* condition is weak fairness of ExtractStep with its enabling condition   *)
(* written out: ExtractStep is enabled, and changes pc or buffer, exactly  *)
(* when pc = "scan".                                                       *)
NextShutdown ==
    \/ StartServer
    \/ Accept
    \/ Recv
    \/ RecvClosed
    \/ ExtractStep
    \/ StopServer

WorkerScheduled == []<>(pc # "scan") \/ []<><<ExtractStep>>_vars

SpecShutdown == Init /\ [][NextShutdown]_vars /\ WorkerScheduled

(* Several connections at once.  Nothing in the program orders the threads *)
(* of lines 514-519 against each other, and "+=" on a dictionary entry is  *)
(* a read followed by a write, between which another thread may run; so   *)
(* may one between the test of line 638 and the del of line 642.  The rest *)
(* of process_frame is kept in one step.                                   *)
WorkerAccept(w) ==
    /\ running
    /\ server_socket = "listening"
    /\ workers[w].pc = "none"
    /\ workers' = [workers EXCEPT ![w].pc = "recv"]
    /\ UNCHANGED <<running, server_socket, mqtt, connected, pc, buffer, stats,
                   slave_stats, discovered_slaves, pending_requests, broker, clock,
                   obs, call, last, probe>>

(* extract_frames hands a frame to process_frame, which reads the counter. *)
WorkerLoad(w) ==
    /\ workers[w].pc = "recv"
    /\ workers[w].processed < MaxRaceFrames
    /\ \E frame_data \in RaceFrames :
           workers' = [workers EXCEPT ![w].pc = "store",
                                      ![w].frame_data = frame_data,
                                      ![w].total_frames = stats.total_frames]
    /\ UNCHANGED <<running, server_socket, mqtt, connected, pc, buffer, stats,
                   slave_stats, discovered_slaves, pending_requests, broker, clock,
                   obs, call, last, probe>>

(* The counter is written back.  For a request the rest of process_frame  *)
(* runs; for a response the worker goes on to lines 638-641, where it      *)
(* tests the pending table and reads the entry of its device.              *)
WorkerStore(w) ==
    /\ workers[w].pc = "store"
    /\ LET frame_data == workers[w].frame_data
           device_id == frame_data[1]
           r == process_frame(Shared, frame_data, clock, FALSE)
       IN  IF is_modbus_request(frame_data[2], frame_data)
           THEN /\ stats' = [r.P.stats EXCEPT
                                !.total_frames = workers[w].total_frames + 1]
                /\ slave_stats' = r.P.slave_stats
                /\ discovered_slaves' = r.P.discovered_slaves
                /\ pending_requests' = r.P.pending_requests
                /\ broker' = r.P.broker
                /\ obs' = <<r.obs>> \o Newest(obs)
                /\ workers' = [workers EXCEPT ![w].pc = "recv",
                                              ![w].processed = @ + 1]
           ELSE /\ stats' = [stats EXCEPT
                                !.total_frames = workers[w].total_frames + 1]
                /\ workers' =
                       IF device_id \in DOMAIN pending_requests
                       THEN [workers EXCEPT
                                ![w].pc = "del",
                                ![w].seen = Some(pending_requests[device_id]),
                                ![w].obtained = @ + 1]
                       ELSE [workers EXCEPT ![w].pc = "del", ![w].seen = None]
                /\ UNCHANGED <<slave_stats, discovered_slaves, pending_requests,
                               broker, obs>>
    /\ UNCHANGED <<running, server_socket, mqtt, connected, pc, buffer, clock, call,
                   last, probe>>

(* Line 642 and the rest of process_frame for a response.  A worker that   *)
(* read an entry deletes the entry of its device; when another worker has  *)
(* deleted it in between, del raises KeyError and line 659 counts the      *)
(* frame as an error.  Otherwise the call goes on with the entry it read,  *)
(* or with none.                                                           *)
WorkerDel(w) ==
    /\ workers[w].pc = "del"
    /\ LET frame_data == workers[w].frame_data
           device_id == frame_data[1]
           seen == workers[w].seen
           view == [Shared EXCEPT
                       !.stats.total_frames = @ - 1,
                       !.pending_requests =
                           IF seen = None THEN Del(@, device_id)
                           ELSE Put(@, device_id, seen[1])]
           r == process_frame(view, frame_data, clock, FALSE)
       IN  IF seen # None /\ device_id \notin DOMAIN pending_requests
           THEN /\ stats' = [stats EXCEPT !.responses = @ + 1, !.errors = @ + 1]
                /\ slave_stats' = update_slave_stats(slave_stats, device_id, "responses")
                /\ workers' = [workers EXCEPT ![w].pc = "recv",
                                              ![w].processed = @ + 1,
                                              ![w].raised = TRUE]
                /\ UNCHANGED <<discovered_slaves, pending_requests, broker, obs>>
           ELSE /\ stats' = r.P.stats
                /\ slave_stats' = r.P.slave_stats
                /\ discovered_slaves' = r.P.discovered_slaves
                /\ pending_requests' =
                       IF seen = None THEN pending_requests
                       ELSE Del(pending_requests, device_id)
                /\ broker' = r.P.broker
                /\ obs' = <<r.obs>> \o Newest(obs)
                /\ workers' = [workers EXCEPT ![w].pc = "recv",
                                              ![w].processed = @ + 1]
    /\ UNCHANGED <<running, server_socket, mqtt, connected, pc, buffer, clock, call,
                   last, probe>>

NextRace ==
    \/ StartServer
    \/ MqttConnect
    \/ \E w \in Workers : WorkerAccept(w)
    \/ \E w \in Workers : WorkerLoad(w)
    \/ \E w \in Workers : WorkerStore(w)
    \/ \E w \in Workers : WorkerDel(w)

SpecRace == Init /\ [][NextRace]_vars

(* The classifier on its own: every function code with every frame length *)
(* up to MaxProbeLen.                                                      *)
ProbeFrame(function_code, length) ==
    [i \in 1..length |-> IF i = 2 THEN function_code ELSE 0]

InitClassify ==
    /\ InitSniffer
    /\ probe \in [function_code : Byte, length : MIN_FRAME_SIZE..MaxProbeLen,
                   result : {"none"}]

Classify ==
    /\ probe.result = "none"
    /\ probe' = [probe EXCEPT !.result =
                    IF is_modbus_request(probe.function_code,
                                         ProbeFrame(probe.function_code, probe.length))
                    THEN "request" ELSE "response"]
    /\ UNCHANGED <<running, server_socket, mqtt, connected, pc, buffer, stats,
                   slave_stats, discovered_slaves, pending_requests, broker, clock,
                   obs, call, last, workers>>

SpecClassify == InitClassify /\ [][Classify]_vars

(* A connection that receives one stream either whole or cut in two at    *)
(* any position: lines 536-545 with one or two passes of the loop.         *)
Nested == Frame(<<9, 9>> \o ReqA)      \* a frame whose payload is a whole request

Streams ==
    {ReqA \o RespA, Noise \o ReqA \o Noise \o RespA, Nested, Nested \o ReqB,
     ErrA \o Take(ReqA, 5)}

InitChunks ==
    /\ InitSniffer
    /\ \E stream \in Streams :
           \E cut \in 0..Len(stream) :
               probe = [stream |-> stream, cut |-> cut, whole |-> None, split |-> None]

(* handle_client from an empty buffer over the given recv results.         *)
handle_client(chunks) ==
    LET first == extract_frames(chunks[1])
    IN  IF Len(chunks) = 1 THEN first
        ELSE LET second == extract_frames(first.buffer \o chunks[2])
             IN  [frames |-> first.frames \o second.frames, buffer |-> second.buffer]

FeedWhole ==
    /\ probe.whole = None
    /\ probe' = [probe EXCEPT !.whole = Some(handle_client(<<probe.stream>>))]
    /\ UNCHANGED <<running, server_socket, mqtt, connected, pc, buffer, stats,
                   slave_stats, discovered_slaves, pending_requests, broker, clock,
                   obs, call, last, workers>>

FeedSplit ==
    /\ probe.split = None
    /\ probe' = [probe EXCEPT !.split =
                    Some(handle_client(<<Take(probe.stream, probe.cut),
                                         Drop(probe.stream, probe.cut)>>))]
    /\ UNCHANGED <<running, server_socket, mqtt, connected, pc, buffer, stats,
                   slave_stats, discovered_slaves, pending_requests, broker, clock,
                   obs, call, last, workers>>

NextChunks == FeedWhole \/ FeedSplit

SpecChunks == InitChunks /\ [][NextChunks]_vars

(* One extract_frames call on line noise followed by the first bytes of a  *)
(* frame: every proper prefix of a request after little noise, and some    *)
(* prefixes, the longest possible one among them, after noise that takes   *)
(* the buffer beyond MAX_BUFFER_SIZE.                                      *)
FramesInFlight ==
    {[noise |-> Garbage(g), prefix |-> Take(ReqA, k)] :
        g \in 0..MaxNoise, k \in 1..(Len(ReqA) - 1)}
    \cup {[noise |-> Garbage(MAX_BUFFER_SIZE + 1 - k), prefix |-> Take(ReqA, k)] :
            k \in {1, Len(ReqA) - 1}}
    \cup {[noise |-> Garbage(MAX_BUFFER_SIZE + 1), prefix |-> Take(ReqA, Len(ReqA) - 1)],
          [noise |-> Garbage(MAX_BUFFER_SIZE + BUFFER_CLEANUP_SIZE + 1),
           prefix |-> Take(Frame256, MAX_FRAME_SIZE - 1)]}

InitDiscard ==
    /\ InitSniffer
    /\ \E f \in FramesInFlight :
           probe = [noise |-> f.noise, prefix |-> f.prefix, returned |-> None]

ExtractCall ==
    /\ probe.returned = None
    /\ probe' = [probe EXCEPT !.returned = Some(extract_frames(probe.noise \o probe.prefix))]
    /\ UNCHANGED <<running, server_socket, mqtt, connected, pc, buffer, stats,
                   slave_stats, discovered_slaves, pending_requests, broker, clock,
                   obs, call, last, workers>>

SpecDiscard == InitDiscard /\ [][ExtractCall]_vars

(* The CRC functions on their own: data of up to MaxCrcLen bytes, and a    *)
(* reference request, followed by its CRC, by the CRC's bytes swapped, or  *)
(* by two zero bytes.                                                      *)
CrcBytes == {0, 1, 255}

RECURSIVE ByteSeqs(_)
ByteSeqs(n) ==
    IF n = 0 THEN {<<>>}
    ELSE ByteSeqs(n - 1) \cup
         {Append(s, b) : s \in {x \in ByteSeqs(n - 1) : Len(x) = n - 1}, b \in CrcBytes}

CrcData == ByteSeqs(MaxCrcLen) \cup {<<1, 3, 0, 0, 0, 1>>}

Trailer(data, kind) ==
    IF kind = "crc" THEN calculate_crc(data)
    ELSE IF kind = "swapped" THEN <<calculate_crc(data)[2], calculate_crc(data)[1]>>
    ELSE <<0, 0>>

InitCrc ==
    /\ InitSniffer
    /\ \E data \in CrcData, kind \in {"crc", "swapped", "zero"} :
           probe = [data |-> data, kind |-> kind, frame |-> data \o Trailer(data, kind),
                    verified |-> None]

(* The test of line 566, on the frame of the query.                        *)
VerifyFrame ==
    /\ probe.verified = None
    /\ probe' = [probe EXCEPT !.verified = Some(verify_crc(probe.frame))]
    /\ UNCHANGED <<running, server_socket, mqtt, connected, pc, buffer, stats,
                   slave_stats, discovered_slaves, pending_requests, broker, clock,
                   obs, call, last, workers>>

SpecCrc == InitCrc /\ [][VerifyFrame]_vars

(* The value extraction on its own: CRC-valid read responses of device 1   *)
(* whose declared byte count and whose payload vary independently.  A read *)
(* response reaches handle_sensor_data only when it is longer than 8       *)
(* bytes, that is with MinPayload bytes or more before its CRC.            *)
MinPayload == 4

PayloadBytes == {<<17, 34, 51, 68, 85, 102, 119>>, <<12, 28, 255, 255, 0, 33, 1>>}

InitValues ==
    /\ InitSniffer
    /\ \E byte_count \in 0..MaxByteCount, n \in MinPayload..MaxPayload, bytes \in PayloadBytes :
           probe = [response_frame |-> Frame(<<1, 3, byte_count>> \o Take(bytes, n)),
                    values |-> None]

(* Lines 672-680 of handle_sensor_data.                                    *)
ExtractValues ==
    /\ probe.values = None
    /\ probe' = [probe EXCEPT !.values = Some(response_values(probe.response_frame))]
    /\ UNCHANGED <<running, server_socket, mqtt, connected, pc, buffer, stats,
                   slave_stats, discovered_slaves, pending_requests, broker, clock,
                   obs, call, last, workers>>

SpecValues == InitValues /\ [][ExtractValues]_vars

(* The decoder on its own: one decode pass of one or two register values,  *)
(* starting at a mapped address or next to one, the value under test being *)
(* within RawWindow of a point where the decoder changes its treatment.    *)
RawPivots == {0, 33, 3000, 18000, 32768, 65535}

RawValues ==
    {v \in 0..65535 : \E c \in RawPivots : v >= c - RawWindow /\ v <= c + RawWindow}

DecodeAddresses ==
    {a \in 1998..4000 : a \in DOMAIN register_mappings \/ a + 1 \in DOMAIN register_mappings}

InitDecode ==
    /\ InitSniffer
    /\ \E start_register \in DecodeAddresses, v \in RawValues :
           \E values \in {<<v>>, <<0, v>>} :
               probe = [start_register |-> start_register, values |-> values,
                        parsed_data |-> None]

(* handle_sensor_data's call of the decoder, line 686.                     *)
Decode ==
    /\ probe.parsed_data = None
    /\ probe' = [probe EXCEPT !.parsed_data =
                    Some(parse_read_response(probe.start_register, probe.values))]
    /\ UNCHANGED <<running, server_socket, mqtt, connected, pc, buffer, stats,
                   slave_stats, discovered_slaves, pending_requests, broker, clock,
                   obs, call, last, workers>>

SpecDecode == InitDecode /\ [][Decode]_vars

-----------------------------------------------------------------------------
(* Properties of the frame extractor, checked under SpecStream.            *)

(* The slice of frame_len bytes of buf at offset start_pos, the candidate  *)
(* lengths the specification gives an offset, and whether a candidate      *)
(* passes verify_crc.                                                      *)
Slice(buf, start_pos, frame_len) == SubSeq(buf, start_pos + 1, start_pos + frame_len)
Lengths(buf, start_pos) == MIN_FRAME_SIZE..Min(Len(buf) - start_pos, MAX_FRAME_SIZE)
Passes(buf, start_pos, frame_len) == verify_crc(Slice(buf, start_pos, frame_len))

(* C1: the frame an iteration hands to process_frame passes verify_crc,   *)
(* no candidate at a smaller offset passes, and no shorter candidate at    *)
(* its own offset passes.                                                  *)
C1_LeftmostShortest ==
    last.kind = "frame" =>
        /\ last.frame_len \in Lengths(last.buf, last.start_pos)
        /\ Passes(last.buf, last.start_pos, last.frame_len)
        /\ \A s \in 0..last.start_pos :
             \A L \in Lengths(last.buf, s) :
                 (s < last.start_pos \/ L < last.frame_len) => ~Passes(last.buf, s, L)

(* C2: every frame handed to process_frame during a call has between 4   *)
(* and 256 bytes, and its last two bytes are the CRC16 of the bytes before *)
(* them.                                                                   *)
C2_FramesWellFormed ==
    \A i \in 1..Len(call.frames) :
        LET frame == call.frames[i]
        IN  /\ Len(frame) >= 4
            /\ Len(frame) <= 256
            /\ SubSeq(frame, Len(frame) - 1, Len(frame))
                   = calculate_crc(SubSeq(frame, 1, Len(frame) - 2))

(* A call that took a frame of 255 bytes out of a long transfer.           *)
C2_Witness ==
    /\ call.frames # <<>>
    /\ Len(call.frames[1]) = MAX_FRAME_SIZE - 1
    /\ call.input = call.frames[1]

(* Buffers of the form garbage1 ++ A ++ garbage2 ++ B for valid frames A   *)
(* and B, each garbage empty or line noise.                                *)
TwoFrameBuffers ==
    {[input |-> g1 \o A \o g2 \o B, frames |-> <<A, B>>] :
        g1 \in {<<>>, Noise}, A \in {ReqA, RespA, Frame255, Frame256},
        g2 \in {<<>>, Noise}, B \in {ReqA, RespA}}

(* C3: a finished call on garbage1 ++ A ++ garbage2 ++ B has handed A and *)
(* then B to process_frame, nothing else, and has left no byte behind.     *)
C3_TwoFramesInOrder ==
    (pc # "scan" /\ call # NoCall) =>
        \A b \in TwoFrameBuffers :
            call.input = b.input => (call.frames = b.frames /\ buffer = <<>>)

(* C4: an iteration that finds no frame has tested, at every offset, the  *)
(* longest candidate, of min(remaining bytes, 256) bytes: none of them     *)
(* passes verify_crc.  So a valid frame of 256 bytes is not passed over.   *)
C4_LongestCandidateTested ==
    last.kind \in {"wait", "cleanup"} =>
        \A s \in 0..(Len(last.buf) - MIN_FRAME_SIZE) :
            ~Passes(last.buf, s, Min(Len(last.buf) - s, MAX_FRAME_SIZE))

(* C5: an iteration takes a frame only where a candidate passes           *)
(* verify_crc; one that takes none drops exactly the first 256 bytes and   *)
(* scans again when the buffer is longer than 512 bytes, and otherwise     *)
(* returns with the buffer unchanged; either way no frame is processed.    *)
C5_NoCandidate ==
    /\ last.kind \in {"none", "short", "frame", "cleanup", "wait"}
    /\ last.kind = "frame" =>
           /\ last.frame_len \in Lengths(last.buf, last.start_pos)
           /\ Passes(last.buf, last.start_pos, last.frame_len)
    /\ last.kind = "cleanup" =>
           /\ Len(last.buf) > 512
           /\ buffer = SubSeq(last.buf, 257, Len(last.buf))
           /\ pc = "scan"
           /\ stats.total_frames = last.processed
    /\ last.kind \in {"wait", "short"} =>
           /\ Len(last.buf) <= 512
           /\ buffer = last.buf
           /\ pc # "scan"
           /\ stats.total_frames = last.processed

(* A buffer longer than 512 bytes without a candidate has been cut.        *)
C5_Witness ==
    /\ last.kind = "cleanup"
    /\ Len(last.buf) > MAX_BUFFER_SIZE
    /\ Len(buffer) = Len(last.buf) - BUFFER_CLEANUP_SIZE

(* C6: extract_frames terminates: an iteration of its loop that does not  *)
(* leave the loop leaves the buffer strictly shorter.                      *)
C6_IterationsShorten ==
    [][(pc = "scan" /\ pc' = "scan") => Len(buffer') < Len(buffer)]_vars

(* A call on more than 512 bytes of noise has returned a remainder.        *)
C6_Witness ==
    /\ last.kind = "wait"
    /\ Len(call.input) > MAX_BUFFER_SIZE
    /\ call.frames = <<>>
    /\ pc = "recv"

-----------------------------------------------------------------------------
(* The classifier, checked under SpecClassify.                             *)

(* The decision table of the specification over function code and length. *)
RequestByTable(function_code, length) ==
    IF function_code >= 128 THEN FALSE
    ELSE CASE function_code \in {1, 2, 3, 4} -> length <= 8
           [] function_code = 6 -> length = 8
           [] function_code = 16 -> length > 9
           [] OTHER -> TRUE

(* C7: is_modbus_request answers every query, and answers as the decision *)
(* table does: bit 7 set is a response; 0x01..0x04 a request iff the       *)
(* length is at most 8; 0x06 iff it is 8; 0x10 iff it is above 9; anything *)
(* else a request.  (0x03, 8) is a request, 0x83 always a response.        *)
C7_DecisionTable ==
    /\ probe.result = "none" /\ probe # NoProbe => ENABLED Classify
    /\ probe.result # "none" =>
           /\ probe.result =
                  (IF RequestByTable(probe.function_code, probe.length)
                   THEN "request" ELSE "response")
           /\ (probe.function_code = 3 /\ probe.length = 8) => probe.result = "request"
           /\ probe.function_code = 131 => probe.result = "response"

(* A write-multiple frame of ten bytes has been classified a request.      *)
C7_Witness ==
    probe = [function_code |-> 16, length |-> 10, result |-> "request"]

-----------------------------------------------------------------------------
(* The correlator and the decoder's input, checked under Spec.             *)

ReadRequest(frame) == Len(frame) = 8 /\ frame[2] \in {3, 4}

(* frame is a read response carrying n register values.                    *)
ReadResponse(frame, n) ==
    /\ frame[2] \in {3, 4}
    /\ frame[3] = 2 * n
    /\ Len(frame) = 5 + 2 * n

RegisterValues(frame, n) == [k \in 1..n |-> frame[2 * k + 2] * 256 + frame[2 * k + 3]]

(* The newest frame is a device's read response with n values, and the     *)
(* frame before it the same device's read request.                         *)
ResponseFollowsRequest(n) ==
    /\ Len(obs) = 2
    /\ ReadRequest(obs[2].frame)
    /\ ReadResponse(obs[1].frame, n)
    /\ obs[1].frame[1] = obs[2].frame[1]
    /\ obs[1].frame[2] = obs[2].frame[2]

Matched ==
    /\ ~obs[1].is_request
    /\ obs[1].request_frame = Some(obs[2].frame)

DecodedFromRequest(n) ==
    obs[1].decoded =
        Some([start_register |-> obs[2].frame[3] * 256 + obs[2].frame[4],
              values |-> RegisterValues(obs[1].frame, n)])

OnlyReadResponsesDecoded ==
    \A i \in 1..Len(obs) :
        obs[i].decoded # None => (~obs[i].is_request /\ obs[i].frame[2] \in {3, 4})

(* C8 as stated: a read request followed by the device's read response    *)
(* with n >= 1 values makes the response a Response matched to the request *)
(* and decoded with the request's start address; nothing but a read        *)
(* response is decoded.                                                    *)
C8_AnyResponseDecoded ==
    /\ \A n \in 1..125 : ResponseFollowsRequest(n) => (Matched /\ DecodedFromRequest(n))
    /\ OnlyReadResponsesDecoded

(* C8, amended: with n >= 2 values the response is a Response matched to  *)
(* the request, and where the MQTT publisher exists its n values are       *)
(* decoded with the request's start address, unless the publication of the *)
(* device's discovery raised before the decoder was reached; with n = 1    *)
(* the response has 7 bytes and is classified a request; without a         *)
(* publisher nothing is decoded; nothing but a read response is decoded.   *)
C8_LongResponseDecoded ==
    /\ \A n \in 2..125 :
           ResponseFollowsRequest(n) =>
               /\ Matched
               /\ mqtt => (DecodedFromRequest(n)
                               \/ (obs[1].sensor_raised /\ obs[1].decoded = None))
               /\ ~mqtt => (obs[1].decoded = None /\ ~obs[1].sensor_raised)
    /\ ResponseFollowsRequest(1) => (obs[1].is_request /\ obs[1].decoded = None)
    /\ OnlyReadResponsesDecoded

(* A response with two values has been decoded after its request.          *)
C8_Witness ==
    /\ ResponseFollowsRequest(2)
    /\ mqtt
    /\ obs[1].decoded # None
    /\ Len(obs[1].decoded[1].values) = 2

(* C9: the pending table has one entry per device id; a frame classified  *)
(* a request becomes its device's entry, with the time of processing, in   *)
(* place of any entry there was; a response that follows a request of its  *)
(* device is matched to that request and its time, whatever was pending    *)
(* before that request.                                                    *)
C9_PendingOverwritten ==
    /\ DOMAIN pending_requests \subseteq Byte
    /\ \A d \in DOMAIN pending_requests : pending_requests[d].frame[1] = d
    /\ (obs # None /\ obs[1].is_request) =>
           /\ obs[1].device_id \in DOMAIN pending_requests
           /\ pending_requests[obs[1].device_id] =
                  [frame |-> obs[1].frame, time |-> obs[1].time,
                   function_code |-> obs[1].frame[2]]
    /\ (/\ Len(obs) = 2
        /\ obs[2].is_request
        /\ ~obs[1].is_request
        /\ obs[1].device_id = obs[2].device_id) =>
           /\ obs[1].request_frame = Some(obs[2].frame)
           /\ obs[1].response_time_ms = (obs[1].time - obs[2].time) * 1000

(* A response has been matched to the second of two requests, which        *)
(* replaced the pending first one.                                         *)
C9_Witness ==
    /\ Len(obs) = 2
    /\ obs[2].is_request
    /\ obs[2].pending_before # None
    /\ obs[2].pending_before[1].frame # obs[2].frame
    /\ ~obs[1].is_request
    /\ obs[1].request_frame = Some(obs[2].frame)

(* C10: a frame classified a response, error responses included, that     *)
(* finds an entry for its device has the time since the stored request as  *)
(* its latency (in milliseconds) and the stored frame as its match, and    *)
(* the entry is gone afterwards.                                           *)
C10_ResponseConsumesPending ==
    (obs # None /\ ~obs[1].is_request /\ obs[1].pending_before # None) =>
        LET stored == obs[1].pending_before[1]
        IN  /\ obs[1].response_time_ms = (obs[1].time - stored.time) * 1000
            /\ obs[1].request_frame = Some(stored.frame)
            /\ obs[1].device_id \notin DOMAIN pending_requests

(* An error response has consumed a request stored one tick earlier.       *)
C10_Witness ==
    /\ obs # None
    /\ obs[1].frame = ErrA
    /\ obs[1].pending_before # None
    /\ obs[1].response_time_ms = 1000
    /\ pending_requests = EmptyDict

(* The pending table as the i-th newest call left it.                      *)
PendingAfter(i) == IF i = 1 THEN pending_requests ELSE obs[i - 1].pending_table

MatchedResponse(i) == ~obs[i].is_request /\ obs[i].pending_before # None
UnmatchedResponse(i) == ~obs[i].is_request /\ obs[i].pending_before = None

(* C11: a response that finds no entry for its device has no matched      *)
(* request frame, leaves the pending table as it was, and has a latency    *)
(* value that no matched response has as its measured latency.             *)
C11_UnknownLatencyDistinct ==
    \A i \in 1..Len(obs) :
        UnmatchedResponse(i) =>
            /\ obs[i].request_frame = None
            /\ PendingAfter(i) = obs[i].pending_table
            /\ \A j \in 1..Len(obs) :
                   MatchedResponse(j) => obs[j].response_time_ms # obs[i].response_time_ms

(* C12: an entry of the pending table changes or disappears only in a     *)
(* step that processes a frame of its own device; frames of other devices  *)
(* and the passage of time leave it as it is.                              *)
C12_PendingNeverExpires ==
    [][\A d \in DOMAIN pending_requests :
          (d \notin DOMAIN pending_requests' \/ pending_requests'[d] # pending_requests[d])
              => (/\ stats'.total_frames = stats.total_frames + 1
                  /\ obs'[1].device_id = d)]_vars

(* The entry of device 1 is still there after time has passed and a frame  *)
(* of device 2 has been processed.                                         *)
C12_Witness ==
    /\ 1 \in DOMAIN pending_requests
    /\ obs # <<>>
    /\ obs[1].device_id = 2
    /\ obs[1].time > pending_requests[1].time
    /\ clock > pending_requests[1].time

-----------------------------------------------------------------------------
(* The statistics, checked under SpecCycle and Spec.                       *)

DevicesSeen == DOMAIN slave_stats

(* C14: each emitted snapshot contains a per-device snapshot for every     *)
(* device from which a frame has been processed, whatever its frames were. *)
C14_EveryDeviceInSnapshot ==
    (broker.snapshot # None /\ broker.snapshot[1].at = stats) =>
        DevicesSeen \subseteq broker.snapshot[1].published

(* C15: for every device d the per-device total_frames counts every frame  *)
(* processed with device id d, and per-device errors is positive, hence    *)
(* slave_quality below 1, once the processing of a frame of d has failed.  *)
C15_PerDeviceCounters ==
    /\ \A d \in DOMAIN slave_stats :
           slave_stats[d].total_frames =
               slave_stats[d].requests + slave_stats[d].responses
    /\ (obs # None /\ (obs[1].raised \/ obs[1].sensor_raised)) =>
           /\ slave_stats[obs[1].device_id].errors >= 1
           /\ slave_stats[obs[1].device_id].valid_frames
                  < slave_stats[obs[1].device_id].valid_frames
                      + slave_stats[obs[1].device_id].errors

(* C17: a failure while a frame is processed, in the decode/publish step   *)
(* or in the statistics step, increments the global errors counter by      *)
(* exactly one and leaves the frame out of valid_frames.                   *)
C17_FailureCountedOnce ==
    (obs # None /\ (obs[1].raised \/ obs[1].sensor_raised)) =>
        /\ stats.errors = obs[1].stats_before.errors + 1
        /\ stats.valid_frames = obs[1].stats_before.valid_frames

-----------------------------------------------------------------------------
(* Shutdown, checked under SpecShutdown.                                   *)

Stopped == ~running /\ server_socket = "closed"

-----------------------------------------------------------------------------
(* The decoder, checked under SpecDecode.                                  *)

Decoded == probe.parsed_data # None
Parsed == probe.parsed_data[1]
Named(name) == {k \in 1..Len(Parsed) : Parsed[k].name = name}
AddressOf(i) == probe.start_register + i - 1
MappedIndexes ==
    {i \in 1..Len(probe.values) : AddressOf(i) \in DOMAIN register_mappings}

(* What the claimed arithmetic gives for a temperature register, in        *)
(* thousandths of a degree: raw values above 32767 are negative and fall   *)
(* below -30, values above 18000 exceed 150.                               *)
TemperatureOf(v) ==
    IF v > 32767 THEN -30000
    ELSE IF v > 18000 THEN 150000
    ELSE (v - 3000) * 10

(* C19: every raw value at a mapped address gives one reading; a           *)
(* temperature is sign-converted above 32767, offset before it is scaled,  *)
(* and clamped to [-30, 150]; any other class is scaled without sign       *)
(* conversion and without clamping. 0xFFFF at a temperature register       *)
(* gives -30.                                                              *)
C19_DecoderNumerics ==
    Decoded =>
        \A i \in MappedIndexes :
            LET v == probe.values[i]
                mapping == register_mappings[AddressOf(i)]
            IN  /\ Cardinality(Named(mapping.name)) = 1
                /\ \A k \in Named(mapping.name) :
                       IF mapping.device_class = "temperature"
                       THEN /\ Parsed[k].value = TemperatureOf(v)
                            /\ Parsed[k].raw_value = IF v > 32767 THEN v - 65536 ELSE v
                            /\ v = 65535 => Parsed[k].value = -30 * 1000
                       ELSE /\ Parsed[k].value = v * mapping.scale
                            /\ Parsed[k].raw_value = v

(* 0xFFFF has been decoded at the outside temperature register.            *)
C19_Witness ==
    /\ Decoded
    /\ probe.start_register = 2110
    /\ probe.values = <<65535>>
    /\ Parsed[1].value = -30000
    /\ Parsed[1].raw_value = -1

(* The bit table of a status-bit register, and the boolean readings of the *)
(* pass that name a bit of register a as their source.                     *)
BitReadings(a) ==
    {k \in 1..Len(Parsed) :
        /\ Parsed[k].device_class = "binary_sensor"
        /\ \E n \in 0..15 : Parsed[k].register = ToString(a) \o "b" \o ToString(n)}
BitTable(a) == IF a = 2108 THEN r2108_bits ELSE r2119_bits
Prefix(a) == IF a = 2108 THEN "R2108" ELSE "R2119"
Bit(v, n) == (v \div (2 ^ n)) % 2

(* C20: a status-bit register decoded with value v gives one boolean       *)
(* reading per entry of its bit table, named by prefix and bit name, true  *)
(* exactly when the entry's bit of v is set, with the register written     *)
(* "<address>b<bit>"; 0x21 at register 2108 makes exactly Fan Low Speed    *)
(* Mode and Fan High Speed Mode true.                                      *)
C20_StatusBits ==
    Decoded =>
        \A i \in MappedIndexes :
            AddressOf(i) \in {2108, 2119} =>
                LET v == probe.values[i]
                    a == AddressOf(i)
                    table == BitTable(a)
                    booleans == BitReadings(a)
                IN  /\ Cardinality(booleans) = Len(table)
                    /\ \A e \in 1..Len(table) :
                           LET name == Prefix(a) \o " " \o table[e].name
                           IN  /\ Cardinality(Named(name)) = 1
                               /\ \A k \in Named(name) :
                                      /\ k \in booleans
                                      /\ Parsed[k].value = (Bit(v, table[e].bit) = 1)
                                      /\ Parsed[k].register =
                                             ToString(a) \o "b" \o ToString(table[e].bit)
                    /\ (a = 2108 /\ v = 33) =>
                           {Parsed[k].name : k \in {j \in booleans : Parsed[j].value}}
                               = {"R2108 Fan Low Speed Mode", "R2108 Fan High Speed Mode"}

(* 0x21 has been decoded at register 2108, as the second value of a pass.  *)
C20_Witness ==
    /\ Decoded
    /\ probe.start_register = 2107
    /\ probe.values = <<0, 33>>
    /\ Cardinality({k \in BitReadings(2108) : Parsed[k].value}) = 2

-----------------------------------------------------------------------------
(* Concurrent workers, checked under SpecRace.                             *)

RECURSIVE FramesProcessed(_)
FramesProcessed(S) ==
    IF S = {} THEN 0
    ELSE LET w == CHOOSE x \in S : TRUE
         IN  workers[w].processed + FramesProcessed(S \ {w})

(* C16: with several workers calling process_frame, no update of the       *)
(* shared counters is lost: whenever no worker is inside process_frame,    *)
(* total_frames equals the number of frames processed.                     *)
C16_NoLostUpdate ==
    (\A w \in Workers : workers[w].pc \notin {"store", "del"}) =>
        stats.total_frames = FramesProcessed(Workers)

(* The responses for which a worker read a pending entry on lines 638-641. *)
RECURSIVE RequestsObtained(_)
RequestsObtained(S) ==
    IF S = {} THEN 0
    ELSE LET w == CHOOSE x \in S : TRUE
         IN  workers[w].obtained + RequestsObtained(S \ {w})

(* C28: a stored request is consumed by at most one response, also with    *)
(* several workers: the responses that obtained a request frame and its    *)
(* timestamp are never more than the requests stored, and no del of a      *)
(* pending entry has raised.                                               *)
C28_ConsumedOnce ==
    /\ RequestsObtained(Workers) <= stats.requests
    /\ \A w \in Workers : ~workers[w].raised

-----------------------------------------------------------------------------
(* The value extraction, checked under SpecValues.                         *)

(* The bytes between the byte count and the CRC.                           *)
Payload(frame) == SubSeq(frame, 4, Len(frame) - 2)

(* C21: a read response yields byte_count / 2 values, a trailing odd byte  *)
(* being ignored whatever the frame's length, or only the complete values  *)
(* present before the CRC when the payload is shorter than declared.       *)
C21_ValueCount ==
    probe.values # None =>
        LET frame == probe.response_frame
            byte_count == frame[3]
            present == Len(Payload(frame))
            values == probe.values[1]
        IN  /\ Len(values) = Min(byte_count \div 2, present \div 2)
            /\ \A k \in 1..Len(values) :
                   values[k] = Payload(frame)[2 * k - 1] * 256 + Payload(frame)[2 * k]

-----------------------------------------------------------------------------
(* The CRC, checked under SpecCrc.                                         *)

(* The Modbus CRC16 register, bit by bit: initial value 0xFFFF, each byte  *)
(* xored into the low byte and followed by eight rounds with 0xA001.  The  *)
(* register is bound as a value c before the rounds are applied to it.     *)
RECURSIVE Crc16(_, _)
Crc16(data, n) ==
    IF n = 0 THEN 65535
    ELSE CHOOSE r \in {crc_bits(c, 8) : c \in {Xor(Crc16(data, n - 1), data[n])}} : TRUE

LowByteFirst(crc) == <<crc % 256, crc \div 256>>

(* The CRC16 of every data of the queries, low byte first.                 *)
ReferenceCrc == [d \in CrcData |-> LowByteFirst(Crc16(d, Len(d)))]

Verified == probe.verified[1]

(* C22 as stated: for every byte sequence d, the empty and the one-byte    *)
(* sequences included, verify_crc(d ++ calculate_crc(d)) is true.          *)
C22_RoundTripAll ==
    (probe.verified # None /\ probe.kind = "crc") => Verified

(* C22, amended: the round trip holds for every d of two bytes or more;    *)
(* verify_crc of a frame of MIN_FRAME_SIZE bytes or more is true iff the   *)
(* Modbus CRC16 of all but its last two bytes, low byte first, equals its  *)
(* last two bytes; a shorter frame never verifies.                         *)
C22_RoundTrip ==
    probe.verified # None =>
        LET frame == probe.frame
            n == Len(frame)
        IN  /\ probe.data = SubSeq(frame, 1, n - 2)
            /\ (probe.kind = "crc" /\ Len(probe.data) >= 2) => Verified
            /\ n >= 4 =>
                   (Verified <=> ReferenceCrc[probe.data] = <<frame[n - 1], frame[n]>>)
            /\ n < 4 => ~Verified
            /\ frame = <<1, 3, 0, 0, 0, 1, 132, 10>> => Verified

(* A frame of exactly four bytes has verified, and so has the reference    *)
(* request 01 03 00 00 00 01 84 0A.                                        *)
C22_Witness ==
    /\ probe.verified # None
    /\ Verified
    /\ \/ Len(probe.frame) = 4
       \/ probe.frame = <<1, 3, 0, 0, 0, 1, 132, 10>>

-----------------------------------------------------------------------------
(* Chunking, checked under SpecChunks.                                     *)

(* C23: the frames handed to process_frame depend only on the bytes        *)
(* received, not on how recv split them: a stream fed whole and the same   *)
(* stream fed in two chunks give the same frames in the same order.        *)
C23_ChunkingIndependent ==
    (probe.whole # None /\ probe.split # None) =>
        probe.split[1].frames = probe.whole[1].frames

-----------------------------------------------------------------------------
(* The buffer of a connection, checked under SpecStream.                   *)

(* An extract_frames call has returned.                                    *)
Returned == pc # "scan" /\ call # NoCall

(* C24: the buffer extract_frames returns has at most MAX_BUFFER_SIZE      *)
(* bytes whatever it was given, and is shorter than MIN_FRAME_SIZE or has  *)
(* no offset at which a length tried by the scan verifies; the buffer of a *)
(* connection never exceeds MAX_BUFFER_SIZE bytes plus one recv.           *)
C24_RemainderBounded ==
    /\ Len(buffer) <= 512 + RecvSize
    /\ Returned =>
           /\ Len(buffer) <= 512
           /\ \/ Len(buffer) < 4
              \/ \A s \in 0..(Len(buffer) - 4) : first_frame_len(buffer, s) = 0

(* A call given more than MAX_BUFFER_SIZE bytes has returned a buffer of   *)
(* MIN_FRAME_SIZE bytes or more.                                           *)
C24_Witness ==
    /\ Returned
    /\ Len(call.input) > 512
    /\ Len(buffer) >= 4
    /\ last.kind = "wait"

(* input, from position pos on, is noise, frames[i], noise, frames[i + 1], *)
(* ..., noise, remainder: the frames are disjoint slices in this order.    *)
RECURSIVE Conserved(_, _, _, _, _)
Conserved(input, pos, frames, i, remainder) ==
    IF i > Len(frames)
    THEN /\ Len(input) - Len(remainder) >= pos
         /\ SubSeq(input, Len(input) - Len(remainder) + 1, Len(input)) = remainder
    ELSE \E s \in pos..(Len(input) - Len(frames[i])) :
             /\ SubSeq(input, s + 1, s + Len(frames[i])) = frames[i]
             /\ Conserved(input, s + Len(frames[i]), frames, i + 1, remainder)

(* C25: the buffer given to extract_frames is, in order, discarded noise,  *)
(* the frames handed to process_frame and the buffer kept: the frames are  *)
(* disjoint slices of it, processed in increasing position.                *)
C25_BytesConserved ==
    call # NoCall =>
        /\ Conserved(call.input, 0, call.frames, 1, buffer)
        /\ Returned => extract_frames(call.input) = [frames |-> call.frames, buffer |-> buffer]

(* A call has taken two frames out of noise and kept nothing.              *)
C25_Witness ==
    /\ Returned
    /\ call.input = Noise \o ReqA \o Noise \o RespA
    /\ call.frames = <<ReqA, RespA>>
    /\ buffer = <<>>

-----------------------------------------------------------------------------
(* The bounded discard, checked under SpecDiscard.                         *)

(* C26: a call that hands no frame to process_frame, on a buffer that      *)
(* ends with the first bytes (fewer than MAX_FRAME_SIZE) of a frame,       *)
(* returns a buffer that still ends with all of those bytes.               *)
C26_FrameInFlightKept ==
    (probe.returned # None /\ probe.returned[1].frames = <<>>) =>
        LET kept == probe.returned[1].buffer
            k == Len(probe.prefix)
        IN  /\ k < 256
            /\ Len(kept) >= k
            /\ SubSeq(kept, Len(kept) - k + 1, Len(kept)) = probe.prefix

(* The discard has run twice on a buffer ending with 255 bytes of a frame  *)
(* of 256, and no frame was found.                                         *)
C26_Witness ==
    /\ probe.returned # None
    /\ probe.returned[1].frames = <<>>
    /\ Len(probe.prefix) = 255
    /\ Len(probe.noise) + Len(probe.prefix) > 512 + 256
    /\ Len(probe.returned[1].buffer) = Len(probe.noise) + Len(probe.prefix) - 512

-----------------------------------------------------------------------------
(* The pending table and the counters of a single worker, checked under    *)
(* Spec.                                                                   *)

(* The entry a request frame leaves in the pending table.                  *)
HoldsFrame(table, d, frame) == d \in DOMAIN table /\ table[d].frame = frame

(* C27: the pending table has an entry for device d exactly when the last  *)
(* frame processed with device id d was classified a request, and the      *)
(* entry holds that frame: no entry before any frame; after a call, the    *)
(* entry of the frame's device is there iff the frame was a request, and   *)
(* the entries of all other devices are as they were before the call.      *)
C27_PendingIffLastWasRequest ==
    /\ obs = None => pending_requests = EmptyDict
    /\ obs # None =>
           LET d == obs[1].device_id
               before == obs[1].pending_table
           IN  /\ d \in DOMAIN pending_requests <=> obs[1].is_request
               /\ obs[1].is_request => HoldsFrame(pending_requests, d, obs[1].frame)
               /\ \A e \in Byte \ {d} :
                      /\ e \in DOMAIN pending_requests <=> e \in DOMAIN before
                      /\ e \in DOMAIN before => pending_requests[e] = before[e]
    /\ (Len(obs) = 2 /\ obs[2].device_id # obs[1].device_id) =>
           /\ obs[2].device_id \in DOMAIN pending_requests <=> obs[2].is_request
           /\ obs[2].is_request =>
                  HoldsFrame(pending_requests, obs[2].device_id, obs[2].frame)

(* The request of device 2 is pending, and only it, after a response has   *)
(* consumed the request of device 1 that was processed before it.          *)
C27_Witness ==
    /\ Len(obs) = 2
    /\ obs[2].frame = ReqB
    /\ obs[1].frame = RespA
    /\ obs[1].pending_before # None
    /\ DOMAIN pending_requests = {2}
    /\ pending_requests[2].frame = ReqB

-----------------------------------------------------------------------------
(* The counters of a single worker over a long run, checked under          *)
(* SpecCycle.                                                              *)

(* The sum of one per-device counter over the devices of S.                *)
RECURSIVE SumOverDevices(_, _)
SumOverDevices(S, stat_type) ==
    IF S = {} THEN 0
    ELSE LET d == CHOOSE x \in S : TRUE
         IN  slave_stats[d][stat_type] + SumOverDevices(S \ {d}, stat_type)

(* The classification counters agree with the frames processed and the     *)
(* per-device counters add up to the global ones.                          *)
CountersAddUp ==
    /\ stats.requests + stats.responses = stats.total_frames
    /\ \A stat_type \in {"valid_frames", "requests", "responses"} :
           SumOverDevices(DOMAIN slave_stats, stat_type) = stats[stat_type]

(* C29: after any sequence of process_frame calls of a single worker,      *)
(* total_frames = valid_frames + errors, requests + responses is the       *)
(* number of frames classified, and the per-device valid_frames, requests  *)
(* and responses each add up to the global counter.                        *)
C29_CountersConsistent ==
    /\ stats.total_frames = stats.valid_frames + stats.errors
    /\ CountersAddUp

-----------------------------------------------------------------------------
(* The request a response is decoded against, checked under SpecMixed.     *)

(* A Modbus read request with function code fc: eight bytes, the code, a   *)
(* start address and a quantity.                                           *)
IsReadRequest(frame, fc) == Len(frame) = 8 /\ frame[2] = fc

(* C30: whenever a 0x03/0x04 response has been register-decoded, the       *)
(* pending request its start register was taken from is a read request     *)
(* with the function code of the response.                                 *)
C30_DecodedAgainstMatchingRead ==
    (obs # None /\ obs[1].decoded # None) =>
        /\ obs[1].request_frame # None
        /\ IsReadRequest(obs[1].request_frame[1], obs[1].frame[2])

-----------------------------------------------------------------------------
(* Discovery and sensor states at the broker, checked under Spec.          *)

(* A step in which the discovery configuration of device d is published.  *)
DiscoveryPublished(d) == d \notin broker.discovery /\ d \in broker'.discovery

(* Discovery is set up for a device only while the device is not yet in    *)
(* discovered_slaves, which it then enters and never leaves.               *)
SetUpOnce ==
    /\ discovered_slaves \subseteq discovered_slaves'
    /\ \A d \in Byte : DiscoveryPublished(d) =>
           d \notin discovered_slaves /\ d \in discovered_slaves'

(* C31: for every device the discovery configuration has been published    *)
(* before any sensor state of the device is published, whatever the order  *)
(* of MQTT connects, disconnects and frames, and discovery is set up at     *)
(* most once per device.                                                   *)
C31_DiscoveryBeforeState ==
    /\ [](broker.state \subseteq broker.discovery)
    /\ [][SetUpOnce]_vars
====
